---- MODULE Spec2Model ----
(***************************************************************************)
(* Rate limiter (rate-limit/index.ts) and distributed lock (lock/index.ts) *)
(* of infra-kit, run by independent callers against one shared Redis.      *)
(* Every Redis command or EVAL script is one atomic step; a caller's       *)
(* locals (the sampled Date.now(), the token, the loop counter) live in    *)
(* ctx between its round trips.                                            *)
(***************************************************************************)
EXTENDS Integers, Sequences, FiniteSets, TLC

\* ------------------------------------------------------------------ bounds
MaxSeconds == 1
NumRands == 2
MaxChecks == 3

\* ------------------------------------------------------- program constants
DefaultTtl == 10000
DefaultRetries == 0
DefaultRetryDelay == 100
DefaultSessionTtl == 86400
MsPerSecond == 1000

\* ------------------------------------------------------------ input domains
Callers == {"A", "B"}
Rands == 1..NumRands
\* the instants the clock visits: the first millisecond and every whole second
Times == {s * MsPerSecond : s \in 0..MaxSeconds} \cup {1}
LockNames == {"", "res"}
\* LockOptions as passed by callers; 0 is the number 0 and also an option left out,
\* which `options.x || d` cannot tell apart
LockOptionArgs ==
    { [ttl |-> -1, retries |-> 0, retryDelay |-> 0],
      [ttl |-> 0, retries |-> 0, retryDelay |-> 0],
      [ttl |-> 1, retries |-> 0, retryDelay |-> 0],
      [ttl |-> 1, retries |-> 1, retryDelay |-> 0],
      [ttl |-> 1, retries |-> 1, retryDelay |-> 1] }
ExtendTtlArgs == {0, 1000}
RateNames == {"", "api"}
Identifiers == {"", "u1"}
LimitArgs == {0, 1, 2}
WindowArgs == {0, 1}
\* keys and identifiers that contain the separator of the store key, as the identifier
\* 'user:123' of the example in rate-limit/index.ts does
ColonNames == {"api", "api:user"}
ColonIdentifiers == {"1", "user:1"}
\* two resources locked side by side
SideLockNames == {"res", "job"}

\* ------------------------------------------------------------------- values
MakeToken(now, r) == [ts |-> now, rnd |-> r]
NoToken == [ts |-> -1, rnd |-> 0]
Tokens == {MakeToken(t, r) : t \in Times, r \in Rands}
\* a token that no acquireLock of the model generates
BogusToken == [ts |-> 0, rnd |-> 0]
NoExpiry == -1
LockKey(key) == "lock:" \o key
\* the session module keeps its strings in the same store, under `session:<id>`
SessionKey(sessionId) == "session:" \o sessionId
LockStoreKeys == {LockKey(k) : k \in LockNames \cup SideLockNames} \cup {SessionKey("s1")}
\* JavaScript `x || d`: the default replaces every falsy x (0, undefined)
OrDefault(x, d) == IF x = 0 THEN d ELSE x

RateKey(key, identifier) == "ratelimit:" \o key \o ":" \o identifier
\* the (key, identifier) pairs that callers pass
RatePairs == (RateNames \X Identifiers) \cup (ColonNames \X ColonIdentifiers)
RateStoreKeys == {RateKey(p[1], p[2]) : p \in RatePairs}
NoResult == [allowed |-> FALSE, remaining |-> -1, resetAt |-> -1, retryAfter |-> -1]

IdleCtx == [op |-> "none"]
\* what the call that completed in the last step gave its caller
Return(op, key, val) == [op |-> op, key |-> key, val |-> val]
NoReturn == Return("none", "", "none")
\* history of the last installation of a lock on a key: who installed it, when its
\* TTL is due, whether a release or an extension has acted on it since, and whether
\* it was installed after the lock before it had run out untouched
NoAcq == [by |-> "nobody", due |-> -1, touched |-> FALSE, afterExpiry |-> FALSE]

VARIABLES clock, lockVal, lockExp, zset, zexp, pc, ctx, ret, res, lastAcq, hist, nChecks

vars == <<clock, lockVal, lockExp, zset, zexp, pc, ctx, ret, res, lastAcq, hist, nChecks>>
lockVars == <<lockVal, lockExp, lastAcq>>
rateVars == <<zset, zexp, res, hist, nChecks>>

Init ==
    /\ clock = 0
    /\ lockVal = [k \in LockStoreKeys |-> NoToken]
    /\ lockExp = [k \in LockStoreKeys |-> NoExpiry]
    /\ pc = [c \in Callers |-> "idle"]
    /\ ctx = [c \in Callers |-> IdleCtx]
    /\ ret = NoReturn
    /\ lastAcq = [k \in LockStoreKeys |-> NoAcq]
    /\ zset = [k \in RateStoreKeys |-> {}]
    /\ zexp = [k \in RateStoreKeys |-> NoExpiry]
    /\ res = NoResult
    /\ hist = [k \in RateStoreKeys |-> <<>>]
    /\ nChecks = 0

\* --------------------------------------------------------------- the store
\* SET without NX: the value is written whether or not the key exists
SetNX_Overwrite(val, exp, k, token, ttl) ==
    [ok |-> TRUE, val |-> [val EXCEPT ![k] = token], exp |-> [exp EXCEPT ![k] = clock + ttl]]

\* the answer of a refused SET taken for 'OK'
SetNX_AlwaysOk(val, exp, k, token, ttl) ==
    IF val[k] = NoToken
    THEN [ok |-> TRUE, val |-> [val EXCEPT ![k] = token],
          exp |-> [exp EXCEPT ![k] = clock + ttl]]
    ELSE [ok |-> TRUE, val |-> val, exp |-> exp]

\* SET NX without PX: the key is written with no expiry
SetNX_NoTtl(val, exp, k, token, ttl) ==
    IF val[k] = NoToken
    THEN [ok |-> TRUE, val |-> [val EXCEPT ![k] = token], exp |-> exp]
    ELSE [ok |-> FALSE, val |-> val, exp |-> exp]

\* a SET ... NX that restarts the TTL of the key it finds
SetNX_RefreshTtl(val, exp, k, token, ttl) ==
    IF val[k] = NoToken
    THEN [ok |-> TRUE, val |-> [val EXCEPT ![k] = token],
          exp |-> [exp EXCEPT ![k] = clock + ttl]]
    ELSE [ok |-> FALSE, val |-> val, exp |-> [exp EXCEPT ![k] = clock + ttl]]

\* SET key value PX ttl NX
SetNX(val, exp, k, token, ttl) ==
    IF val[k] = NoToken
    THEN [ok |-> TRUE, val |-> [val EXCEPT ![k] = token],
          exp |-> [exp EXCEPT ![k] = clock + ttl]]
    ELSE [ok |-> FALSE, val |-> val, exp |-> exp]

\* a plain DEL, with no comparison of the stored value
ReleaseScript_NoCompare(val, exp, k, token) ==
    IF val[k] # NoToken
    THEN [n |-> 1, val |-> [val EXCEPT ![k] = NoToken],
          exp |-> [exp EXCEPT ![k] = NoExpiry]]
    ELSE [n |-> 0, val |-> val, exp |-> exp]

\* the comparison without the delete
ReleaseScript_NoDelete(val, exp, k, token) ==
    [n |-> IF val[k] = token THEN 1 ELSE 0, val |-> val, exp |-> exp]

\* if redis.call("get", KEYS[1]) == ARGV[1] then return redis.call("del", KEYS[1]) else return 0
ReleaseScript(val, exp, k, token) ==
    IF val[k] = token
    THEN [n |-> 1, val |-> [val EXCEPT ![k] = NoToken],
          exp |-> [exp EXCEPT ![k] = NoExpiry]]
    ELSE [n |-> 0, val |-> val, exp |-> exp]

\* PEXPIRE without the comparison of the stored value with the token
ExtendScript_NoCompare(val, exp, k, token, ttl) ==
    IF val[k] # NoToken
    THEN IF ttl <= 0
         THEN [n |-> 1, val |-> [val EXCEPT ![k] = NoToken],
               exp |-> [exp EXCEPT ![k] = NoExpiry]]
         ELSE [n |-> 1, val |-> val, exp |-> [exp EXCEPT ![k] = clock + ttl]]
    ELSE [n |-> 0, val |-> val, exp |-> exp]

\* if redis.call("get", KEYS[1]) == ARGV[1] then return redis.call("pexpire", KEYS[1], ARGV[2]) else return 0
\* PEXPIRE with a ttl that is not positive deletes the key and still answers 1
ExtendScript(val, exp, k, token, ttl) ==
    IF val[k] = token
    THEN IF ttl <= 0
         THEN [n |-> 1, val |-> [val EXCEPT ![k] = NoToken],
               exp |-> [exp EXCEPT ![k] = NoExpiry]]
         ELSE [n |-> 1, val |-> val, exp |-> [exp EXCEPT ![k] = clock + ttl]]
    ELSE [n |-> 0, val |-> val, exp |-> exp]

\* the history of key k after a release or extension script answered n
Touch(k, n) ==
    IF n = 1
    THEN [lastAcq EXCEPT ![k] = IF lockVal'[k] = NoToken THEN NoAcq
                                ELSE [@ EXCEPT !.touched = TRUE, !.due = -1]]
    ELSE lastAcq

\* a caller that was granted a token keeps it until it has released with it
Holding(c) == pc[c] \in {"holding", "fn", "finally"}
HoldCtx(key, token) == [op |-> "hold", key |-> key, token |-> token,
                        expired |-> FALSE, outcome |-> "none"]

\* ------------------------------------------------------------- acquireLock
\* lines 37-50 of acquireLock: validation, token, option defaults;
\* with = TRUE when the call is the one made by withLock (line 142)
AcquireStart(c, key, options, with) ==
    /\ pc[c] = "idle"
    /\ \E r \in Rands :
         LET token == MakeToken(clock, r)
             ttl == OrDefault(options.ttl, DefaultTtl)
             retries == OrDefault(options.retries, DefaultRetries)
             retryDelay == OrDefault(options.retryDelay, DefaultRetryDelay)
         IN  IF key = "" \/ ttl < 1
             THEN /\ ret' = Return(IF with THEN "withLock" ELSE "acquireLock",
                                    key, "ValidationError")
                  /\ UNCHANGED <<pc, ctx>>
             ELSE /\ pc' = [pc EXCEPT ![c] = "acquire"]
                  /\ ctx' = [ctx EXCEPT ![c] =
                        [op |-> "acquire", key |-> key, token |-> token, ttl |-> ttl,
                         retries |-> retries, retryDelay |-> retryDelay, i |-> 0,
                         wake |-> clock, with |-> with]]
                  /\ ret' = NoReturn
    /\ UNCHANGED <<clock, lockVal, lockExp, lastAcq, rateVars>>

\* the loop with `i <= retries + 1`: one attempt too many
AcquireTry_ExtraAttempt(c) ==
    /\ pc[c] = "acquire"
    /\ clock >= ctx[c].wake
    /\ ctx[c].i <= ctx[c].retries + 1
    /\ LET x == ctx[c]
           k == LockKey(x.key)
           result == SetNX(lockVal, lockExp, k, x.token, x.ttl)
       IN  /\ lockVal' = result.val
           /\ lockExp' = result.exp
           /\ IF result.ok
              THEN /\ lastAcq' = [lastAcq EXCEPT ![k] =
                          [by |-> c, due |-> clock + x.ttl, touched |-> FALSE,
                           afterExpiry |-> /\ lastAcq[k] # NoAcq
                                           /\ ~lastAcq[k].touched
                                           /\ clock >= lastAcq[k].due]]
                   /\ pc' = [pc EXCEPT ![c] = IF x.with THEN "fn" ELSE "holding"]
                   /\ ctx' = [ctx EXCEPT ![c] = HoldCtx(x.key, x.token)]
                   /\ ret' = IF x.with THEN NoReturn ELSE Return("acquireLock", x.key, "token")
              ELSE /\ UNCHANGED lastAcq
                   /\ IF x.i < x.retries + 1
                      THEN /\ pc' = pc
                           /\ ctx' = [ctx EXCEPT ![c].i = x.i + 1,
                                                 ![c].wake = clock + x.retryDelay]
                           /\ ret' = NoReturn
                      ELSE /\ pc' = [pc EXCEPT ![c] = "idle"]
                           /\ ctx' = [ctx EXCEPT ![c] = IdleCtx]
                           /\ ret' = IF x.with THEN Return("withLock", x.key, "AcquisitionFailure")
                                      ELSE Return("acquireLock", x.key, "null")
    /\ UNCHANGED <<clock, rateVars>>

\* withLock without its `if (!token) throw`: fn runs although no lock was obtained
AcquireTry_FnOnNull(c) ==
    /\ pc[c] = "acquire"
    /\ clock >= ctx[c].wake
    /\ ctx[c].i <= ctx[c].retries
    /\ LET x == ctx[c]
           k == LockKey(x.key)
           result == SetNX(lockVal, lockExp, k, x.token, x.ttl)
       IN  /\ lockVal' = result.val
           /\ lockExp' = result.exp
           /\ IF result.ok
              THEN /\ lastAcq' = [lastAcq EXCEPT ![k] =
                          [by |-> c, due |-> clock + x.ttl, touched |-> FALSE,
                           afterExpiry |-> /\ lastAcq[k] # NoAcq
                                           /\ ~lastAcq[k].touched
                                           /\ clock >= lastAcq[k].due]]
                   /\ pc' = [pc EXCEPT ![c] = IF x.with THEN "fn" ELSE "holding"]
                   /\ ctx' = [ctx EXCEPT ![c] = HoldCtx(x.key, x.token)]
                   /\ ret' = IF x.with THEN NoReturn ELSE Return("acquireLock", x.key, "token")
              ELSE /\ UNCHANGED lastAcq
                   /\ IF x.i < x.retries
                      THEN /\ pc' = pc
                           /\ ctx' = [ctx EXCEPT ![c].i = x.i + 1,
                                                 ![c].wake = clock + x.retryDelay]
                           /\ ret' = NoReturn
                      ELSE IF x.with
                           THEN /\ pc' = [pc EXCEPT ![c] = "fn"]
                                /\ ctx' = [ctx EXCEPT ![c] = HoldCtx(x.key, x.token)]
                                /\ ret' = NoReturn
                           ELSE /\ pc' = [pc EXCEPT ![c] = "idle"]
                                /\ ctx' = [ctx EXCEPT ![c] = IdleCtx]
                                /\ ret' = Return("acquireLock", x.key, "null")
    /\ UNCHANGED <<clock, rateVars>>

\* acquireLock that gives up at the first refusal, whatever `retries` says
AcquireTry_GiveUp(c) ==
    /\ pc[c] = "acquire"
    /\ clock >= ctx[c].wake
    /\ ctx[c].i <= ctx[c].retries
    /\ LET x == ctx[c]
           k == LockKey(x.key)
           result == SetNX(lockVal, lockExp, k, x.token, x.ttl)
       IN  /\ lockVal' = result.val
           /\ lockExp' = result.exp
           /\ IF result.ok
              THEN /\ lastAcq' = [lastAcq EXCEPT ![k] =
                          [by |-> c, due |-> clock + x.ttl, touched |-> FALSE,
                           afterExpiry |-> /\ lastAcq[k] # NoAcq
                                           /\ ~lastAcq[k].touched
                                           /\ clock >= lastAcq[k].due]]
                   /\ pc' = [pc EXCEPT ![c] = IF x.with THEN "fn" ELSE "holding"]
                   /\ ctx' = [ctx EXCEPT ![c] = HoldCtx(x.key, x.token)]
                   /\ ret' = IF x.with THEN NoReturn ELSE Return("acquireLock", x.key, "token")
              ELSE /\ UNCHANGED lastAcq
                   /\ pc' = [pc EXCEPT ![c] = "idle"]
                   /\ ctx' = [ctx EXCEPT ![c] = IdleCtx]
                   /\ ret' = IF x.with THEN Return("withLock", x.key, "AcquisitionFailure")
                              ELSE Return("acquireLock", x.key, "null")
    /\ UNCHANGED <<clock, rateVars>>

\* one iteration of the for loop of acquireLock (lines 52-62) and the return after it
AcquireTry(c) ==
    /\ pc[c] = "acquire"
    /\ clock >= ctx[c].wake
    /\ ctx[c].i <= ctx[c].retries
    /\ LET x == ctx[c]
           k == LockKey(x.key)
           result == SetNX(lockVal, lockExp, k, x.token, x.ttl)
       IN  /\ lockVal' = result.val
           /\ lockExp' = result.exp
           /\ IF result.ok
              THEN /\ lastAcq' = [lastAcq EXCEPT ![k] =
                          [by |-> c, due |-> clock + x.ttl, touched |-> FALSE,
                           afterExpiry |-> /\ lastAcq[k] # NoAcq
                                           /\ ~lastAcq[k].touched
                                           /\ clock >= lastAcq[k].due]]
                   /\ pc' = [pc EXCEPT ![c] = IF x.with THEN "fn" ELSE "holding"]
                   /\ ctx' = [ctx EXCEPT ![c] = HoldCtx(x.key, x.token)]
                   /\ ret' = IF x.with THEN NoReturn ELSE Return("acquireLock", x.key, "token")
              ELSE /\ UNCHANGED lastAcq
                   /\ IF x.i < x.retries
                      THEN /\ pc' = pc
                           /\ ctx' = [ctx EXCEPT ![c].i = x.i + 1,
                                                 ![c].wake = clock + x.retryDelay]
                           /\ ret' = NoReturn
                      ELSE /\ pc' = [pc EXCEPT ![c] = "idle"]
                           /\ ctx' = [ctx EXCEPT ![c] = IdleCtx]
                           /\ ret' = IF x.with THEN Return("withLock", x.key, "AcquisitionFailure")
                                      ELSE Return("acquireLock", x.key, "null")
    /\ UNCHANGED <<clock, rateVars>>

\* ------------------------------------------------------------- releaseLock
ReleaseLock(c, key, token) ==
    /\ pc[c] \in {"idle", "holding"}
    /\ LET k == LockKey(key)
           result == ReleaseScript(lockVal, lockExp, k, token)
           own == pc[c] = "holding" /\ ctx[c].key = key /\ ctx[c].token = token
       IN  /\ lockVal' = result.val
           /\ lockExp' = result.exp
           /\ lastAcq' = Touch(k, result.n)
           /\ ret' = Return("releaseLock", key, IF result.n = 1 THEN "true" ELSE "false")
           /\ pc' = IF own THEN [pc EXCEPT ![c] = "idle"] ELSE pc
           /\ ctx' = IF own THEN [ctx EXCEPT ![c] = IdleCtx] ELSE ctx
    /\ UNCHANGED <<clock, rateVars>>

\* -------------------------------------------------------------- extendLock
ExtendLock(c, key, token, ttl) ==
    /\ pc[c] \in {"idle", "holding"}
    /\ LET k == LockKey(key)
           result == ExtendScript(lockVal, lockExp, k, token, ttl)
       IN  /\ lockVal' = result.val
           /\ lockExp' = result.exp
           /\ lastAcq' = Touch(k, result.n)
           /\ ret' = Return("extendLock", key, IF result.n = 1 THEN "true" ELSE "false")
    /\ UNCHANGED <<clock, pc, ctx, rateVars>>

\* ---------------------------------------------------------------- withLock
\* fn() settles: it returns a value or throws (line 149)
FnSettle(c, outcome) ==
    /\ pc[c] = "fn"
    /\ pc' = [pc EXCEPT ![c] = "finally"]
    /\ ctx' = [ctx EXCEPT ![c].outcome = outcome]
    /\ ret' = NoReturn
    /\ UNCHANGED <<clock, lockVal, lockExp, lastAcq, rateVars>>

\* withLock with the release after `await fn()` instead of in a finally block: a fn
\* that throws leaves the lock behind
WithLockFinally_OnlyOnReturn(c) ==
    /\ pc[c] = "finally"
    /\ LET x == ctx[c]
           k == LockKey(x.key)
           result == IF x.outcome = "fnValue"
                     THEN ReleaseScript(lockVal, lockExp, k, x.token)
                     ELSE [n |-> 0, val |-> lockVal, exp |-> lockExp]
       IN  /\ lockVal' = result.val
           /\ lockExp' = result.exp
           /\ lastAcq' = Touch(k, result.n)
           /\ ret' = Return("withLock", x.key, x.outcome)
    /\ pc' = [pc EXCEPT ![c] = "idle"]
    /\ ctx' = [ctx EXCEPT ![c] = IdleCtx]
    /\ UNCHANGED <<clock, rateVars>>

\* the finally block (line 151), then withLock settles as fn did
WithLockFinally(c) ==
    /\ pc[c] = "finally"
    /\ LET x == ctx[c]
           k == LockKey(x.key)
           result == ReleaseScript(lockVal, lockExp, k, x.token)
       IN  /\ lockVal' = result.val
           /\ lockExp' = result.exp
           /\ lastAcq' = Touch(k, result.n)
           /\ ret' = Return("withLock", x.key, x.outcome)
    /\ pc' = [pc EXCEPT ![c] = "idle"]
    /\ ctx' = [ctx EXCEPT ![c] = IdleCtx]
    /\ UNCHANGED <<clock, rateVars>>

\* -------------------------------------------------------------------- time
Expired(exp, k, t) == exp[k] # NoExpiry /\ exp[k] <= t

\* the clock moves on; a key whose TTL has elapsed is gone
Tick ==
    /\ \E t \in Times :
         /\ t > clock
         /\ clock' = t
         /\ lockVal' = [k \in LockStoreKeys |->
                IF Expired(lockExp, k, t) THEN NoToken ELSE lockVal[k]]
         /\ lockExp' = [k \in LockStoreKeys |->
                IF Expired(lockExp, k, t) THEN NoExpiry ELSE lockExp[k]]
         /\ ctx' = [c \in Callers |->
                IF /\ Holding(c)
                   /\ lastAcq[LockKey(ctx[c].key)].by = c
                   /\ Expired(lockExp, LockKey(ctx[c].key), t)
                THEN [ctx[c] EXCEPT !.expired = TRUE] ELSE ctx[c]]
         /\ zset' = [k \in RateStoreKeys |->
                IF Expired(zexp, k, t) THEN {} ELSE zset[k]]
         /\ zexp' = [k \in RateStoreKeys |->
                IF Expired(zexp, k, t) THEN NoExpiry ELSE zexp[k]]
    /\ ret' = NoReturn
    /\ res' = NoResult
    /\ UNCHANGED <<pc, lastAcq, hist, nChecks>>

\* ---------------------------------------------------------- checkRateLimit
Max(a, b) == IF a >= b THEN a ELSE b

\* redis.call('zremrangebyscore', key, 0, windowStart): scores in [0, windowStart] go
Prune(entries, windowStart) == {e \in entries : ~(0 <= e.ts /\ e.ts <= windowStart)}

\* the script with `count <= limit` for `count < limit`
RateScript_OffByOne(entries, exp, now, windowStart, limit, window, tag) ==
    LET kept == Prune(entries, windowStart)
        count == Cardinality(kept)
    IN  IF count <= limit
        THEN [allowed |-> 1, count |-> count,
              entries |-> kept \cup {[ts |-> now, tag |-> tag]},
              exp |-> clock + window * MsPerSecond]
        ELSE [allowed |-> 0, count |-> count, entries |-> kept,
              exp |-> IF kept = {} THEN NoExpiry ELSE exp]

\* the script with `expire` called before the branch: a rejection refreshes the key
RateScript_ExpireOnReject(entries, exp, now, windowStart, limit, window, tag) ==
    LET kept == Prune(entries, windowStart)
        count == Cardinality(kept)
    IN  IF count < limit
        THEN [allowed |-> 1, count |-> count,
              entries |-> kept \cup {[ts |-> now, tag |-> tag]},
              exp |-> clock + window * MsPerSecond]
        ELSE [allowed |-> 0, count |-> count, entries |-> kept,
              exp |-> clock + window * MsPerSecond]

\* the script with `zcard` read again after `zadd`: the count includes the new entry
RateScript_CountAfterAdd(entries, exp, now, windowStart, limit, window, tag) ==
    LET kept == Prune(entries, windowStart)
        count == Cardinality(kept)
        added == kept \cup {[ts |-> now, tag |-> tag]}
    IN  IF count < limit
        THEN [allowed |-> 1, count |-> Cardinality(added), entries |-> added,
              exp |-> clock + window * MsPerSecond]
        ELSE [allowed |-> 0, count |-> count, entries |-> kept,
              exp |-> IF kept = {} THEN NoExpiry ELSE exp]

\* the Lua script of checkRateLimit (lines 51-68), run on the entries of one key;
\* tag is what math.random() gave
RateScript(entries, exp, now, windowStart, limit, window, tag) ==
    LET kept == Prune(entries, windowStart)
        count == Cardinality(kept)
    IN  IF count < limit
        THEN [allowed |-> 1, count |-> count,
              entries |-> kept \cup {[ts |-> now, tag |-> tag]},
              exp |-> clock + window * MsPerSecond]
        ELSE [allowed |-> 0, count |-> count, entries |-> kept,
              exp |-> IF kept = {} THEN NoExpiry ELSE exp]

\* redis.zrange(key, 0, 0, 'WITHSCORES'): the least score, none when the key is absent
OldestTimestamp(entries, now) ==
    IF entries = {} THEN now
    ELSE CHOOSE t \in {e.ts : e \in entries} : \A e \in entries : t <= e.ts

\* the validation without its test of options.limit
CheckStart_NoLimitCheck(c, identifier, options) ==
    /\ pc[c] = "idle"
    /\ nChecks < MaxChecks
    /\ IF identifier = "" \/ options.key = "" \/ options.window < 1
       THEN /\ ret' = Return("checkRateLimit", RateKey(options.key, identifier), "ValidationError")
            /\ UNCHANGED <<pc, ctx, nChecks>>
       ELSE /\ pc' = [pc EXCEPT ![c] = "eval"]
            /\ ctx' = [ctx EXCEPT ![c] =
                  [op |-> "check", key |-> RateKey(options.key, identifier), now |-> clock,
                   limit |-> options.limit, window |-> options.window, seen |-> -1,
                   pair |-> <<options.key, identifier>>]]
            /\ nChecks' = nChecks + 1
            /\ ret' = NoReturn
    /\ res' = NoResult
    /\ UNCHANGED <<clock, lockVars, zset, zexp, hist>>

\* lines 32-48: validation, then Date.now() is sampled; ctx.pair keeps the (key, identifier)
\* the call was made for
CheckStart(c, identifier, options) ==
    /\ pc[c] = "idle"
    /\ nChecks < MaxChecks
    /\ IF identifier = "" \/ options.key = "" \/ options.limit < 1 \/ options.window < 1
       THEN /\ ret' = Return("checkRateLimit", RateKey(options.key, identifier), "ValidationError")
            /\ UNCHANGED <<pc, ctx, nChecks>>
       ELSE /\ pc' = [pc EXCEPT ![c] = "eval"]
            /\ ctx' = [ctx EXCEPT ![c] =
                  [op |-> "check", key |-> RateKey(options.key, identifier), now |-> clock,
                   limit |-> options.limit, window |-> options.window, seen |-> -1,
                   pair |-> <<options.key, identifier>>]]
            /\ nChecks' = nChecks + 1
            /\ ret' = NoReturn
    /\ res' = NoResult
    /\ UNCHANGED <<clock, lockVars, zset, zexp, hist>>

\* line 70: the script runs in the store; lines 71-75 and 85 on its answer; on a
\* rejection ctx.seen keeps the oldest timestamp the script left in the window
CheckEval(c) ==
    /\ pc[c] = "eval"
    /\ \E tag \in Rands :
         LET x == ctx[c]
             windowStart == x.now - x.window * MsPerSecond
             result == RateScript(zset[x.key], zexp[x.key], x.now, windowStart,
                                  x.limit, x.window, tag)
             allowed == result.allowed = 1
             remaining == Max(0, x.limit - result.count - (IF allowed THEN 1 ELSE 0))
             resetAt == x.now + x.window * MsPerSecond
         IN  /\ zset' = [zset EXCEPT ![x.key] = result.entries]
             /\ zexp' = [zexp EXCEPT ![x.key] = result.exp]
             /\ hist' = [hist EXCEPT ![x.key] = Append(@,
                    [op |-> "check", now |-> x.now, at |-> clock, allowed |-> allowed,
                     limit |-> x.limit, window |-> x.window])]
             /\ IF allowed
                THEN /\ pc' = [pc EXCEPT ![c] = "idle"]
                     /\ ctx' = [ctx EXCEPT ![c] = IdleCtx]
                     /\ ret' = Return("checkRateLimit", ctx[c].key, "result")
                     /\ res' = [allowed |-> TRUE, remaining |-> remaining,
                                resetAt |-> resetAt, retryAfter |-> -1]
                ELSE /\ pc' = [pc EXCEPT ![c] = "zrange"]
                     /\ ctx' = [ctx EXCEPT ![c].seen = OldestTimestamp(result.entries, x.now)]
                     /\ ret' = NoReturn
                     /\ res' = NoResult
    /\ UNCHANGED <<clock, lockVars, nChecks>>

\* lines 77-83: a second round trip reads the oldest entry
CheckZrange(c) ==
    /\ pc[c] = "zrange"
    /\ LET x == ctx[c]
           oldestTimestamp == OldestTimestamp(zset[x.key], x.now)
           retryAfter == Max(0, (oldestTimestamp + x.window * MsPerSecond) - x.now)
       IN  res' = [allowed |-> FALSE, remaining |-> 0,
                   resetAt |-> x.now + x.window * MsPerSecond, retryAfter |-> retryAfter]
    /\ ret' = Return("checkRateLimit", ctx[c].key, "result")
    /\ pc' = [pc EXCEPT ![c] = "idle"]
    /\ ctx' = [ctx EXCEPT ![c] = IdleCtx]
    /\ UNCHANGED <<clock, lockVars, zset, zexp, hist, nChecks>>

\* lines 77-83 for a caller that takes the advice of the result: it will call again
\* retryAfter milliseconds after the `now` of the rejected check, with the same
\* arguments
CheckZrangeBackoff(c) ==
    /\ pc[c] = "zrange"
    /\ LET x == ctx[c]
           oldestTimestamp == OldestTimestamp(zset[x.key], x.now)
           retryAfter == Max(0, (oldestTimestamp + x.window * MsPerSecond) - x.now)
       IN  /\ res' = [allowed |-> FALSE, remaining |-> 0,
                      resetAt |-> x.now + x.window * MsPerSecond, retryAfter |-> retryAfter]
           /\ ctx' = [ctx EXCEPT ![c] =
                  [op |-> "backoff", key |-> x.key, pair |-> x.pair, limit |-> x.limit,
                   window |-> x.window, from |-> x.now, due |-> x.now + retryAfter]]
    /\ ret' = Return("checkRateLimit", ctx[c].key, "result")
    /\ pc' = [pc EXCEPT ![c] = "backoff"]
    /\ UNCHANGED <<clock, lockVars, zset, zexp, hist, nChecks>>

\* the call made when the advised time has come: lines 32-48 with arguments that have
\* passed the validation before; ctx.from keeps the `now` of the rejected check
CheckRetryStart(c) ==
    /\ pc[c] = "backoff"
    /\ clock = ctx[c].due
    /\ pc' = [pc EXCEPT ![c] = "eval"]
    /\ ctx' = [ctx EXCEPT ![c] =
          [op |-> "check", key |-> ctx[c].key, now |-> clock, limit |-> ctx[c].limit,
           window |-> ctx[c].window, seen |-> -1, pair |-> ctx[c].pair,
           from |-> ctx[c].from]]
    /\ ret' = NoReturn
    /\ res' = NoResult
    /\ UNCHANGED <<clock, lockVars, zset, zexp, hist, nChecks>>

\* ---------------------------------------------------------- resetRateLimit
\* resetRateLimit with key and identifier swapped in the key it deletes
ResetRateLimit_WrongKey(c, identifier, key) ==
    /\ pc[c] = "idle"
    /\ nChecks < MaxChecks
    /\ LET k == RateKey(key, identifier)
           deleted == RateKey(identifier, key)
       IN  /\ zset' = [j \in RateStoreKeys |-> IF j = deleted THEN {} ELSE zset[j]]
           /\ zexp' = [j \in RateStoreKeys |-> IF j = deleted THEN NoExpiry ELSE zexp[j]]
           /\ IF hist[k] = <<>>
              THEN UNCHANGED <<hist, nChecks>>
              ELSE /\ hist' = [hist EXCEPT ![k] = Append(@,
                         [op |-> "reset", now |-> clock, at |-> clock, allowed |-> FALSE,
                          limit |-> 0, window |-> 0])]
                   /\ nChecks' = nChecks + 1
    /\ ret' = Return("resetRateLimit", RateKey(key, identifier), "void")
    /\ res' = NoResult
    /\ UNCHANGED <<clock, lockVars, pc, ctx>>

\* the history records a reset only of a key that has been checked before
ResetRateLimit(c, identifier, key) ==
    /\ pc[c] = "idle"
    /\ nChecks < MaxChecks
    /\ LET k == RateKey(key, identifier)
       IN  /\ zset' = [zset EXCEPT ![k] = {}]
           /\ zexp' = [zexp EXCEPT ![k] = NoExpiry]
           /\ IF hist[k] = <<>>
              THEN UNCHANGED <<hist, nChecks>>
              ELSE /\ hist' = [hist EXCEPT ![k] = Append(@,
                         [op |-> "reset", now |-> clock, at |-> clock, allowed |-> FALSE,
                          limit |-> 0, window |-> 0])]
                   /\ nChecks' = nChecks + 1
    /\ ret' = Return("resetRateLimit", RateKey(key, identifier), "void")
    /\ res' = NoResult
    /\ UNCHANGED <<clock, lockVars, pc, ctx>>

\* ----------------------------------------------------------- store failure
\* the promise of a store call rejects (the connection is down, the command is not
\* run): `await redis.set` (lock line 53), `await redis.eval` (rate-limit line 70),
\* `await redis.zrange` (rate-limit line 78)
FailedPc(p) == p \o "Failed"

StoreFault(c) ==
    /\ pc[c] \in {"acquire", "eval", "zrange"}
    /\ pc[c] = "acquire" => (clock >= ctx[c].wake /\ ctx[c].i <= ctx[c].retries)
    /\ pc' = [pc EXCEPT ![c] = FailedPc(pc[c])]
    /\ ret' = NoReturn
    /\ UNCHANGED <<clock, lockVars, rateVars, ctx>>

\* `await redis.eval` of releaseLock (line 87) rejects
ReleaseFault(c, key, token) ==
    /\ pc[c] \in {"idle", "holding"}
    /\ pc' = [pc EXCEPT ![c] = "releaseFailed"]
    /\ ctx' = [ctx EXCEPT ![c] = [op |-> "releaseLock", key |-> key, token |-> token,
                                  from |-> pc[c], held |-> ctx[c]]]
    /\ ret' = NoReturn
    /\ UNCHANGED <<clock, lockVars, rateVars>>

\* `await redis.eval` of extendLock (line 115) rejects
ExtendFault(c, key, token, ttl) ==
    /\ pc[c] \in {"idle", "holding"}
    /\ pc' = [pc EXCEPT ![c] = "extendFailed"]
    /\ ctx' = [ctx EXCEPT ![c] = [op |-> "extendLock", key |-> key, token |-> token,
                                  from |-> pc[c], held |-> ctx[c]]]
    /\ ret' = NoReturn
    /\ UNCHANGED <<clock, lockVars, rateVars>>

\* acquireLock with a catch around the SET that treats a failure as "not acquired"
AcquireRaise_CatchAsBusy(c) ==
    /\ pc[c] = "acquireFailed"
    /\ LET x == ctx[c]
       IN  IF x.i < x.retries
           THEN /\ pc' = [pc EXCEPT ![c] = "acquire"]
                /\ ctx' = [ctx EXCEPT ![c].i = x.i + 1, ![c].wake = clock + x.retryDelay]
                /\ ret' = NoReturn
           ELSE /\ pc' = [pc EXCEPT ![c] = "idle"]
                /\ ctx' = [ctx EXCEPT ![c] = IdleCtx]
                /\ ret' = IF x.with THEN Return("withLock", x.key, "AcquisitionFailure")
                           ELSE Return("acquireLock", x.key, "null")
    /\ UNCHANGED <<clock, lockVars, rateVars>>

\* the for loop of acquireLock (lines 52-62) has no try/catch: the rejection leaves the
\* loop and acquireLock (and a withLock that called it, line 142) rejects with it
AcquireRaise(c) ==
    /\ pc[c] = "acquireFailed"
    /\ ret' = Return(IF ctx[c].with THEN "withLock" ELSE "acquireLock", ctx[c].key, "StoreError")
    /\ pc' = [pc EXCEPT ![c] = "idle"]
    /\ ctx' = [ctx EXCEPT ![c] = IdleCtx]
    /\ UNCHANGED <<clock, lockVars, rateVars>>

\* releaseLock (lines 74-89) and extendLock (lines 99-117) have no try/catch either;
\* the caller is where it was before the call
CallRaise(c) ==
    /\ pc[c] \in {"releaseFailed", "extendFailed"}
    /\ ret' = Return(ctx[c].op, ctx[c].key, "StoreError")
    /\ pc' = [pc EXCEPT ![c] = ctx[c].from]
    /\ ctx' = [ctx EXCEPT ![c] = ctx[c].held]
    /\ UNCHANGED <<clock, lockVars, rateVars>>

\* checkRateLimit (lines 70-83) has no try/catch: no RateLimitResult is built
CheckRaise(c) ==
    /\ pc[c] \in {"evalFailed", "zrangeFailed"}
    /\ ret' = Return("checkRateLimit", ctx[c].key, "StoreError")
    /\ res' = NoResult
    /\ pc' = [pc EXCEPT ![c] = "idle"]
    /\ ctx' = [ctx EXCEPT ![c] = IdleCtx]
    /\ UNCHANGED <<clock, lockVars, zset, zexp, hist, nChecks>>

\* `await releaseLock(key, token)` in the finally block of withLock (line 151) rejects:
\* its redis.eval (line 87) failed
FinallyFault(c) ==
    /\ pc[c] = "finally"
    /\ pc' = [pc EXCEPT ![c] = "finallyFailed"]
    /\ ret' = NoReturn
    /\ UNCHANGED <<clock, lockVars, rateVars, ctx>>

\* a throw inside a finally block replaces the completion of the try block (lines
\* 148-152): withLock rejects with the failure of the release, whatever fn did
WithLockRaise(c) ==
    /\ pc[c] = "finallyFailed"
    /\ ret' = Return("withLock", ctx[c].key, "StoreError")
    /\ pc' = [pc EXCEPT ![c] = "idle"]
    /\ ctx' = [ctx EXCEPT ![c] = IdleCtx]
    /\ UNCHANGED <<clock, lockVars, rateVars>>

\* ------------------------------------------------------------------ cache
\* the cache functions use the same client (getCacheClient) and the same key space as
\* the locks; they put no prefix before the key they are given
CacheKeyArgs == {"", LockKey("res")}
\* seconds; 0 is the TTL 0 and also a TTL left out, which `if (ttl)` cannot tell apart
CacheTtlArgs == {-1, 0, 1}
PatternArgs == {"*", "lock:*"}
\* JSON.stringify(value): a string that is nobody's lock token
CacheValue == [ts |-> -2, rnd |-> 0]

\* Redis KEYS glob, for the patterns used here: a literal, or a prefix followed by `*`
HasPrefix(k, p) == Len(k) >= Len(p) /\ SubSeq(k, 1, Len(p)) = p
Glob(pattern, k) ==
    IF Len(pattern) > 0 /\ SubSeq(pattern, Len(pattern), Len(pattern)) = "*"
    THEN HasPrefix(k, SubSeq(pattern, 1, Len(pattern) - 1))
    ELSE k = pattern

\* what is known of the last acquisition of each lock key once the keys hold val and exp
Overwritten(val, exp) ==
    [k \in LockStoreKeys |->
        IF val[k] = lockVal[k] /\ exp[k] = lockExp[k] THEN lastAcq[k]
        ELSE IF val[k] = NoToken THEN NoAcq
        ELSE [lastAcq[k] EXCEPT !.touched = TRUE, !.due = -1]]

\* setCache (lines 17-39): SETEX with a TTL, SET without
SetCache(c, key, ttl) ==
    /\ pc[c] \in {"idle", "holding"}
    /\ IF key = "" \/ ttl < 0
       THEN /\ ret' = Return("setCache", key, "ValidationError")
            /\ UNCHANGED lockVars
       ELSE LET val == [lockVal EXCEPT ![key] = CacheValue]
                exp == [lockExp EXCEPT ![key] =
                           IF ttl # 0 THEN clock + ttl * MsPerSecond ELSE NoExpiry]
            IN  /\ lockVal' = val
                /\ lockExp' = exp
                /\ lastAcq' = Overwritten(val, exp)
                /\ ret' = Return("setCache", key, "true")
    /\ UNCHANGED <<clock, pc, ctx, rateVars>>

\* deleteCache (lines 60-64) with one key: DEL
DeleteCache(c, key) ==
    /\ pc[c] \in {"idle", "holding"}
    /\ IF key \in LockStoreKeys
       THEN LET val == [lockVal EXCEPT ![key] = NoToken]
                exp == [lockExp EXCEPT ![key] = NoExpiry]
            IN  /\ lockVal' = val
                /\ lockExp' = exp
                /\ lastAcq' = Overwritten(val, exp)
                /\ ret' = Return("deleteCache", key, IF lockVal[key] # NoToken THEN "1" ELSE "0")
       ELSE /\ ret' = Return("deleteCache", key, "0")
            /\ UNCHANGED lockVars
    /\ UNCHANGED <<clock, pc, ctx, rateVars>>

\* deletePattern, lines 144-151: validation, then KEYS lists the matching keys
DeletePattern(c, pattern) ==
    /\ pc[c] = "idle"
    /\ LET keys == {k \in LockStoreKeys : lockVal[k] # NoToken /\ Glob(pattern, k)}
                   \cup {k \in RateStoreKeys : zset[k] # {} /\ Glob(pattern, k)}
       IN  IF pattern = "" \/ pattern = "*"
           THEN /\ ret' = Return("deletePattern", pattern, "ValidationError")
                /\ UNCHANGED <<pc, ctx>>
           ELSE IF keys = {}
           THEN /\ ret' = Return("deletePattern", pattern, "0")
                /\ UNCHANGED <<pc, ctx>>
           ELSE /\ pc' = [pc EXCEPT ![c] = "del"]
                /\ ctx' = [ctx EXCEPT ![c] = [op |-> "deletePattern", key |-> pattern,
                                              keys |-> keys]]
                /\ ret' = NoReturn
    /\ UNCHANGED <<clock, lockVars, rateVars>>

\* deletePattern, lines 153-161: DEL of the keys listed (fewer than 100: one chunk)
DeletePatternDel(c) ==
    /\ pc[c] = "del"
    /\ LET keys == ctx[c].keys
           val == [k \in LockStoreKeys |-> IF k \in keys THEN NoToken ELSE lockVal[k]]
           exp == [k \in LockStoreKeys |-> IF k \in keys THEN NoExpiry ELSE lockExp[k]]
       IN  /\ lockVal' = val
           /\ lockExp' = exp
           /\ lastAcq' = Overwritten(val, exp)
           /\ zset' = [k \in RateStoreKeys |-> IF k \in keys THEN {} ELSE zset[k]]
           /\ zexp' = [k \in RateStoreKeys |-> IF k \in keys THEN NoExpiry ELSE zexp[k]]
    /\ ret' = Return("deletePattern", ctx[c].key, "deleted")
    /\ pc' = [pc EXCEPT ![c] = "idle"]
    /\ ctx' = [ctx EXCEPT ![c] = IdleCtx]
    /\ UNCHANGED <<clock, res, hist, nChecks>>

\* clearCache (lines 167-170): FLUSHDB
ClearCache(c) ==
    /\ pc[c] \in {"idle", "holding"}
    /\ lockVal' = [k \in LockStoreKeys |-> NoToken]
    /\ lockExp' = [k \in LockStoreKeys |-> NoExpiry]
    /\ lastAcq' = [k \in LockStoreKeys |-> NoAcq]
    /\ zset' = [k \in RateStoreKeys |-> {}]
    /\ zexp' = [k \in RateStoreKeys |-> NoExpiry]
    /\ ret' = Return("clearCache", "", "void")
    /\ UNCHANGED <<clock, pc, ctx, res, hist, nChecks>>

\* ---------------------------------------------------------------- session
\* session objects are functions from field names to values
SessionIdArgs == {"", "s1"}
SessionDataArgs == {"user" :> 1}
SessionUpdateArgs == {"email" :> 1, "roles" :> 1}
\* seconds; 0 is an option left out
SessionTtlArgs == {-1, 0, 1}

\* JSON.stringify(data) and the JSON.parse of getSession (lines 72-80): anything that
\* is not a stored object reads as null
Stringify(data) == [json |-> data]
NoSession == [none |-> TRUE]
ParseSession(v) == IF "json" \in DOMAIN v THEN v.json ELSE NoSession

\* { ...existing, ...data }
Merge(existing, data) ==
    [f \in DOMAIN existing \cup DOMAIN data |->
        IF f \in DOMAIN data THEN data[f] ELSE existing[f]]

\* setSession (lines 30-51): validation, then SETEX
SetSession(c, sessionId, data, options) ==
    /\ pc[c] = "idle"
    /\ LET key == SessionKey(sessionId)
           ttl == OrDefault(options.ttl, DefaultSessionTtl)
       IN  IF sessionId = "" \/ ttl < 1
           THEN /\ ret' = Return("setSession", sessionId, "ValidationError")
                /\ UNCHANGED lockVars
           ELSE LET val == [lockVal EXCEPT ![key] = Stringify(data)]
                    exp == [lockExp EXCEPT ![key] = clock + ttl * MsPerSecond]
                IN  /\ lockVal' = val
                    /\ lockExp' = exp
                    /\ lastAcq' = Overwritten(val, exp)
                    /\ ret' = Return("setSession", sessionId, "void")
    /\ UNCHANGED <<clock, pc, ctx, rateVars>>

\* updateSession, lines 95-99: getSession reads the stored object
UpdateSessionGet(c, sessionId, data, options) ==
    /\ pc[c] = "idle"
    /\ LET existing == ParseSession(lockVal[SessionKey(sessionId)])
       IN  IF existing = NoSession
           THEN /\ ret' = Return("updateSession", sessionId, "SessionNotFound")
                /\ UNCHANGED <<pc, ctx>>
           ELSE /\ pc' = [pc EXCEPT ![c] = "merge"]
                /\ ctx' = [ctx EXCEPT ![c] =
                      [op |-> "updateSession", key |-> sessionId, existing |-> existing,
                       data |-> data, options |-> options]]
                /\ ret' = NoReturn
    /\ UNCHANGED <<clock, lockVars, rateVars>>

\* updateSession, line 101: setSession writes the object read before, merged with data
UpdateSessionSet(c) ==
    /\ pc[c] = "merge"
    /\ LET x == ctx[c]
           key == SessionKey(x.key)
           ttl == OrDefault(x.options.ttl, DefaultSessionTtl)
       IN  IF ttl < 1
           THEN /\ ret' = Return("updateSession", x.key, "ValidationError")
                /\ UNCHANGED lockVars
           ELSE LET val == [lockVal EXCEPT ![key] = Stringify(Merge(x.existing, x.data))]
                    exp == [lockExp EXCEPT ![key] = clock + ttl * MsPerSecond]
                IN  /\ lockVal' = val
                    /\ lockExp' = exp
                    /\ lastAcq' = Overwritten(val, exp)
                    /\ ret' = Return("updateSession", x.key, "void")
    /\ pc' = [pc EXCEPT ![c] = "idle"]
    /\ ctx' = [ctx EXCEPT ![c] = IdleCtx]
    /\ UNCHANGED <<clock, rateVars>>

\* deleteSession (lines 109-113): DEL
DeleteSession(c, sessionId) ==
    /\ pc[c] = "idle"
    /\ LET key == SessionKey(sessionId)
           val == [lockVal EXCEPT ![key] = NoToken]
           exp == [lockExp EXCEPT ![key] = NoExpiry]
       IN  /\ lockVal' = val
           /\ lockExp' = exp
           /\ lastAcq' = Overwritten(val, exp)
    /\ ret' = Return("deleteSession", sessionId, "void")
    /\ UNCHANGED <<clock, pc, ctx, rateVars>>

\* ----------------------------------------------------------- specification
\* the tokens a caller presents: the one it was granted and a foreign one
TokenArgs(c, key) == (IF Holding(c) THEN {ctx[c].token} ELSE {}) \cup {BogusToken}

NextLock ==
    \/ \E c \in Callers, key \in LockNames, options \in LockOptionArgs, with \in BOOLEAN :
            AcquireStart(c, key, options, with)
    \/ \E c \in Callers : AcquireTry(c)
    \/ \E c \in Callers, key \in LockNames :
         \E token \in TokenArgs(c, key) : ReleaseLock(c, key, token)
    \/ \E c \in Callers, key \in LockNames :
         \E token \in TokenArgs(c, key), ttl \in ExtendTtlArgs : ExtendLock(c, key, token, ttl)
    \/ \E c \in Callers, outcome \in {"fnValue", "fnError"} : FnSettle(c, outcome)
    \/ \E c \in Callers : WithLockFinally(c)
    \/ Tick

SpecLock == Init /\ [][NextLock]_vars

RateOptionArgs == [key : RateNames, limit : LimitArgs, window : WindowArgs]

NextRate ==
    \/ \E c \in Callers, identifier \in Identifiers, options \in RateOptionArgs :
            CheckStart(c, identifier, options)
    \/ \E c \in Callers : CheckEval(c)
    \/ \E c \in Callers : CheckZrange(c)
    \/ \E c \in Callers, identifier \in Identifiers, key \in RateNames :
            ResetRateLimit(c, identifier, key)
    \/ Tick

SpecRate == Init /\ [][NextRate]_vars

\* callers working on several rate-limit pairs and several locks side by side, all
\* within one millisecond: no key expires meanwhile
SideRateOptionArgs == [key : ColonNames, limit : {1}, window : {1}]
SideLockOptionArgs == {[ttl |-> 1000, retries |-> 0, retryDelay |-> 0]}

NextSide ==
    \/ \E c \in Callers, identifier \in ColonIdentifiers, options \in SideRateOptionArgs :
            CheckStart(c, identifier, options)
    \/ \E c \in Callers : CheckEval(c)
    \/ \E c \in Callers : CheckZrange(c)
    \/ \E c \in Callers, identifier \in ColonIdentifiers, key \in ColonNames :
            ResetRateLimit(c, identifier, key)
    \/ \E c \in Callers, key \in SideLockNames, options \in SideLockOptionArgs :
            AcquireStart(c, key, options, FALSE)
    \/ \E c \in Callers : AcquireTry(c)
    \/ \E c \in Callers, key \in SideLockNames :
         \E token \in TokenArgs(c, key) : ReleaseLock(c, key, token)
    \/ \E c \in Callers, key \in SideLockNames :
         \E token \in TokenArgs(c, key), ttl \in ExtendTtlArgs : ExtendLock(c, key, token, ttl)

SpecSide == Init /\ [][NextSide]_vars

\* one lock and one rate-limit window, with store calls that may fail, all within one
\* millisecond
FaultLockOptionArgs == {[ttl |-> 0, retries |-> 1, retryDelay |-> 0]}
FaultRateOptionArgs == {[key |-> "api", limit |-> 1, window |-> 1]}

NextFaulty ==
    \/ \E c \in Callers, options \in FaultLockOptionArgs : AcquireStart(c, "res", options, FALSE)
    \/ \E c \in Callers : AcquireTry(c)
    \/ \E c \in Callers : \E token \in TokenArgs(c, "res") : ReleaseLock(c, "res", token)
    \/ \E c \in Callers : \E token \in TokenArgs(c, "res"), ttl \in ExtendTtlArgs :
            ExtendLock(c, "res", token, ttl)
    \/ \E c \in Callers, options \in FaultRateOptionArgs : CheckStart(c, "u1", options)
    \/ \E c \in Callers : CheckEval(c)
    \/ \E c \in Callers : CheckZrange(c)
    \/ \E c \in Callers : StoreFault(c)
    \/ \E c \in Callers : \E token \in TokenArgs(c, "res") : ReleaseFault(c, "res", token)
    \/ \E c \in Callers : \E token \in TokenArgs(c, "res"), ttl \in ExtendTtlArgs :
            ExtendFault(c, "res", token, ttl)
    \/ \E c \in Callers : AcquireRaise(c)
    \/ \E c \in Callers : CallRaise(c)
    \/ \E c \in Callers : CheckRaise(c)

SpecFaulty == Init /\ [][NextFaulty]_vars

\* one rate-limit window, and callers that come back when retryAfter tells them to
RetryRateOptionArgs == [key : {"api"}, limit : {1, 2}, window : {1}]

NextRetry ==
    \/ \E c \in Callers, options \in RetryRateOptionArgs : CheckStart(c, "u1", options)
    \/ \E c \in Callers : CheckEval(c)
    \/ \E c \in Callers : CheckZrange(c)
    \/ \E c \in Callers : CheckZrangeBackoff(c)
    \/ \E c \in Callers : CheckRetryStart(c)
    \/ \E c \in Callers : ResetRateLimit(c, "u1", "api")
    \/ Tick

SpecRetry == Init /\ [][NextRetry]_vars

\* one rate-limit window checked with two window lengths, as a limiter made by
\* createRateLimiter does when a call overrides `window` (lines 99-103)
WindowRateOptionArgs == [key : {"api"}, limit : {2}, window : {1, 2}]

NextWindows ==
    \/ \E c \in Callers, options \in WindowRateOptionArgs : CheckStart(c, "u1", options)
    \/ \E c \in Callers : CheckEval(c)
    \/ \E c \in Callers : CheckZrange(c)
    \/ \E c \in Callers : ResetRateLimit(c, "u1", "api")
    \/ Tick

SpecWindows == Init /\ [][NextWindows]_vars

\* one lock, a holder and a caller that retries; timers fire and time passes: a caller
\* whose delay is over makes its attempt (the event loop resumes the `await` of line 60)
HandoverLockOptionArgs ==
    { [ttl |-> 1, retries |-> 0, retryDelay |-> 0],
      [ttl |-> 1, retries |-> 1, retryDelay |-> 1] }

NextHandover ==
    \/ \E c \in Callers, options \in HandoverLockOptionArgs :
            AcquireStart(c, "res", options, FALSE)
    \/ \E c \in Callers : AcquireTry(c)
    \/ \E c \in Callers : \E token \in TokenArgs(c, "res") : ReleaseLock(c, "res", token)
    \/ \E c \in Callers : \E token \in TokenArgs(c, "res"), ttl \in ExtendTtlArgs :
            ExtendLock(c, "res", token, ttl)
    \/ Tick

SpecHandover ==
    /\ Init /\ [][NextHandover]_vars
    /\ \A c \in Callers : WF_vars(AcquireTry(c))
    /\ WF_vars(Tick)

\* one session that callers set, update and delete concurrently
SessionOptionArgs == [ttl : SessionTtlArgs]

NextSession ==
    \/ \E c \in Callers, sessionId \in SessionIdArgs, data \in SessionDataArgs,
          options \in SessionOptionArgs : SetSession(c, sessionId, data, options)
    \/ \E c \in Callers, data \in SessionUpdateArgs, options \in SessionOptionArgs :
            UpdateSessionGet(c, "s1", data, options)
    \/ \E c \in Callers : UpdateSessionSet(c)
    \/ \E c \in Callers : DeleteSession(c, "s1")
    \/ Tick

SpecSession == Init /\ [][NextSession]_vars

\* withLock on one lock, with a release on exit that may fail
NextWithLock ==
    \/ \E c \in Callers, options \in SideLockOptionArgs : AcquireStart(c, "res", options, TRUE)
    \/ \E c \in Callers : AcquireTry(c)
    \/ \E c \in Callers, outcome \in {"fnValue", "fnError"} : FnSettle(c, outcome)
    \/ \E c \in Callers : WithLockFinally(c)
    \/ \E c \in Callers : FinallyFault(c)
    \/ \E c \in Callers : WithLockRaise(c)
    \/ Tick

SpecWithLock == Init /\ [][NextWithLock]_vars

\* one lock, and callers that also use the cache functions on the same store
NextCache ==
    \/ \E c \in Callers, options \in SideLockOptionArgs : AcquireStart(c, "res", options, FALSE)
    \/ \E c \in Callers : AcquireTry(c)
    \/ \E c \in Callers : \E token \in TokenArgs(c, "res") : ReleaseLock(c, "res", token)
    \/ \E c \in Callers : \E token \in TokenArgs(c, "res"), ttl \in ExtendTtlArgs :
            ExtendLock(c, "res", token, ttl)
    \/ \E c \in Callers, key \in CacheKeyArgs, ttl \in CacheTtlArgs : SetCache(c, key, ttl)
    \/ \E c \in Callers, key \in CacheKeyArgs : DeleteCache(c, key)
    \/ \E c \in Callers, pattern \in PatternArgs : DeletePattern(c, pattern)
    \/ \E c \in Callers : DeletePatternDel(c)
    \/ \E c \in Callers : ClearCache(c)
    \/ Tick

SpecCache == Init /\ [][NextCache]_vars

\* ------------------------------------------------------- history predicates
Checks(h) == {i \in DOMAIN h : h[i].op = "check"}
NoReset(h) == \A i \in DOMAIN h : h[i].op = "check"
\* every check of the history used limit L and window W
Uniform(h, L, W) == \A i \in Checks(h) : h[i].limit = L /\ h[i].window = W
\* the allowed checks whose sampled now lies in [from, from + W seconds)
AllowedIn(h, from, W) ==
    {j \in Checks(h) : /\ h[j].allowed
                       /\ from <= h[j].now
                       /\ h[j].now < from + W * MsPerSecond}

\* ------------------------------------------------------------------ claims
\* C1: for a (key, identifier) whose checks all use the same limit L and window W, the
\* allowed checks whose sampled now lies in any one interval of W seconds number at
\* most L, for every interleaving of the callers.
C1_RateCap ==
    \A k \in RateStoreKeys : \A L \in LimitArgs, W \in WindowArgs :
        (NoReset(hist[k]) /\ Uniform(hist[k], L, W)) =>
            \A i \in Checks(hist[k]) :
                Cardinality(AllowedIn(hist[k], hist[k][i].now, W)) <= L

\* C4: after checks that all use limit L on one (key, identifier), the window never
\* stores more than L entries.
C4_WindowBounded ==
    \A k \in RateStoreKeys : \A L \in LimitArgs :
        (\A i \in Checks(hist[k]) : hist[k][i].limit = L) =>
            (Checks(hist[k]) # {} => Cardinality(zset[k]) <= L)

C4_Witness ==
    \E k \in RateStoreKeys :
        /\ NoReset(hist[k])
        /\ \A i \in Checks(hist[k]) : hist[k][i].limit = 2
        /\ Cardinality(zset[k]) = 2
        /\ \E i \in Checks(hist[k]) : ~hist[k][i].allowed

\* C5: from an empty window, when k checks with the same limit L and window W are all
\* issued and committed within less than W seconds, the first min(k, L) in commit
\* order are allowed and every later one is rejected.
C5_FirstLAllowed ==
    \A k \in RateStoreKeys : \A L \in LimitArgs, W \in WindowArgs :
        ( /\ NoReset(hist[k])
          /\ Uniform(hist[k], L, W)
          /\ \A i, j \in Checks(hist[k]) : hist[k][j].at - hist[k][i].now < W * MsPerSecond )
        => \A i \in Checks(hist[k]) : hist[k][i].allowed <=> (i <= L)

\* C2: a key holds at most one token and a stored token has not expired; only a
\* successful attempt of acquireLock installs a token, and only on a key that holds none.
C2_SingleToken ==
    /\ [](\A k \in LockStoreKeys :
            lockVal[k] # NoToken => (lockExp[k] # NoExpiry /\ clock < lockExp[k]))
    /\ [][\A k \in LockStoreKeys :
            (lockVal'[k] # NoToken /\ lockVal'[k] # lockVal[k]) =>
                /\ lockVal[k] = NoToken
                /\ \E c \in Callers : /\ pc[c] = "acquire"
                                      /\ LockKey(ctx[c].key) = k
                                      /\ lockVal'[k] = ctx[c].token
                                      /\ Holding(c)']_vars

C2_Witness ==
    \E c, d \in Callers :
        /\ pc[c] = "holding"
        /\ lockVal[LockKey(ctx[c].key)] = ctx[c].token
        /\ lastAcq[LockKey(ctx[c].key)].by = c
        /\ pc[d] = "acquire" /\ ctx[d].key = ctx[c].key /\ ctx[d].i = 1

\* caller c has just made an attempt of its acquireLock loop
Attempted(c) == pc[c] = "acquire" /\ <<pc[c], ctx[c]>>' # <<pc[c], ctx[c]>>

\* C3: while a key holds a token, every attempt on it by another acquireLock fails: the
\* lock is left as it is, no token is granted, and the call returns null once its
\* retries are used up.
C3_Excluded ==
    [][\A c \in Callers :
        (Attempted(c) /\ lockVal[LockKey(ctx[c].key)] # NoToken) =>
            /\ lockVal' = lockVal
            /\ lockExp' = lockExp
            /\ ~Holding(c)'
            /\ ret'.val # "token"
            /\ IF ctx[c].i < ctx[c].retries
               THEN pc'[c] = "acquire" /\ ctx'[c].i = ctx[c].i + 1
               ELSE /\ pc'[c] = "idle"
                    /\ ret' \in {Return("acquireLock", ctx[c].key, "null"),
                                 Return("withLock", ctx[c].key, "AcquisitionFailure")}]_vars

C3_Witness ==
    /\ ret = Return("acquireLock", "res", "null")
    /\ lockVal[LockKey("res")] # NoToken
    /\ \E c \in Callers : pc[c] = "holding" /\ lastAcq[LockKey("res")].by = c

\* the step is a releaseLock(key, token) of caller c
Released(c, key, token) ==
    /\ ret'.op = "releaseLock"
    /\ ret'.key = key
    /\ ReleaseLock(c, key, token)

\* C6: releaseLock with a token other than the stored one returns false and leaves the
\* stored token and its expiry as they were.
C6_WrongTokenNoop ==
    [][\A c \in Callers, key \in LockNames : \A token \in TokenArgs(c, key) :
        (Released(c, key, token) /\ token # lockVal[LockKey(key)]) =>
            /\ ret' = Return("releaseLock", key, "false")
            /\ lockVal' = lockVal
            /\ lockExp' = lockExp]_vars

C6_Witness ==
    /\ ret = Return("releaseLock", "res", "false")
    /\ lockVal[LockKey("res")] # NoToken
    /\ lockExp[LockKey("res")] > clock

\* C7: releaseLock returns true exactly when the stored value equals the token as its
\* script runs, and then the key is absent after that same step.
C7_ReleaseIff ==
    [][\A c \in Callers, key \in LockNames : \A token \in TokenArgs(c, key) :
        Released(c, key, token) =>
            /\ (ret'.val = "true") <=> (lockVal[LockKey(key)] = token)
            /\ (ret'.val = "true") =>
                  (lockVal'[LockKey(key)] = NoToken /\ lockExp'[LockKey(key)] = NoExpiry)]_vars

C7_Witness ==
    /\ ret = Return("releaseLock", "res", "true")
    /\ lockVal[LockKey("res")] = NoToken

\* caller c still presents the token of a lease that ran out, and another caller has
\* acquired the key since
StaleHolder(c) ==
    /\ Holding(c)
    /\ ctx[c].expired
    /\ lockVal[LockKey(ctx[c].key)] # NoToken
    /\ lastAcq[LockKey(ctx[c].key)].by # c

\* C8: after A's lease expired and B acquired the key, a releaseLock or extendLock by A
\* with its old token, the release of withLock included, returns false and leaves B's
\* token and expiry unchanged.
C8_StaleTokenHarmless ==
    [][\A c \in Callers :
        ( /\ StaleHolder(c)
          /\ \/ ReleaseLock(c, ctx[c].key, ctx[c].token)
             \/ \E ttl \in ExtendTtlArgs : ExtendLock(c, ctx[c].key, ctx[c].token, ttl)
             \/ WithLockFinally(c) )
        => /\ lockVal' = lockVal
           /\ lockExp' = lockExp
           /\ (pc[c] = "holding" => ret'.val = "false")]_vars

\* C9: the tokens generated by two calls of acquireLock differ.
C9_TokensDistinct ==
    \A c, d \in Callers :
        (c # d /\ ctx[c].op \in {"acquire", "hold"} /\ ctx[d].op \in {"acquire", "hold"})
            => ctx[c].token # ctx[d].token

\* the lock last installed on k was neither released nor extended and its TTL has elapsed
RanOut(k) == lastAcq[k] # NoAcq /\ ~lastAcq[k].touched /\ clock >= lastAcq[k].due

\* C10: a lock acquired with TTL t that is neither released nor extended is absent once
\* t milliseconds have elapsed, and the next attempt of acquireLock on the key succeeds.
C10_ExpiresThenAcquirable ==
    /\ [](\A k \in LockStoreKeys : RanOut(k) => lockVal[k] = NoToken)
    /\ [][\A c \in Callers :
            (Attempted(c) /\ RanOut(LockKey(ctx[c].key))) =>
                /\ Holding(c)'
                /\ lockVal'[LockKey(ctx[c].key)] = ctx[c].token]_vars

C10_Witness ==
    \E k \in LockStoreKeys : lastAcq[k].afterExpiry /\ lockVal[k] # NoToken
\* the step is an extendLock(key, token, ttl) of caller c
Extended(c, key, token, ttl) ==
    /\ ret'.op = "extendLock"
    /\ ret'.key = key
    /\ ExtendLock(c, key, token, ttl)

\* the step returns false and leaves every stored token and expiry as it was
NoopFalse == ret'.val = "false" /\ lockVal' = lockVal /\ lockExp' = lockExp

\* C11: extendLock with a token other than the stored one, or on an absent key, returns
\* false (it does not throw) and leaves the stored token and its expiry as they were:
\* an extendLock step that does anything else presented the stored token.
C11_ExtendMismatchNoop ==
    [][(ret'.op = "extendLock" /\ ~NoopFalse) =>
        \A c \in Callers : \A token \in TokenArgs(c, ret'.key), ttl \in ExtendTtlArgs :
            Extended(c, ret'.key, token, ttl) => token = lockVal[LockKey(ret'.key)]]_vars

C11_Witness ==
    /\ ret = Return("extendLock", "res", "false")
    /\ lockVal[LockKey("res")] # NoToken
    /\ lockExp[LockKey("res")] > clock
\* the attempt caller c is about to make is the last of its loop and the store refuses it:
\* its acquireLock returns null
ReturnsNull(c) ==
    /\ ctx[c].i = ctx[c].retries
    /\ ~SetNX(lockVal, lockExp, LockKey(ctx[c].key), ctx[c].token, ctx[c].ttl).ok

\* C12: when the acquireLock inside withLock returns null, withLock throws the
\* acquisition failure without running fn and without issuing a release: the holder's
\* lock stays as it is.
C12_NoFnOnFailure ==
    [][\A c \in Callers :
        (Attempted(c) /\ ctx[c].with /\ ReturnsNull(c)) =>
            /\ ret' = Return("withLock", ctx[c].key, "AcquisitionFailure")
            /\ pc'[c] = "idle"
            /\ lockVal' = lockVal
            /\ lockExp' = lockExp
            /\ lastAcq' = lastAcq]_vars

C12_Witness ==
    /\ ret = Return("withLock", "res", "AcquisitionFailure")
    /\ \E c \in Callers : /\ Holding(c)
                           /\ lastAcq[LockKey("res")].by = c
                           /\ lockVal[LockKey("res")] = ctx[c].token
\* the lock that c's withLock installed is still the one stored: its TTL has not elapsed
\* and no release or extension by any caller has acted on it
Uncontended(c) ==
    LET k == LockKey(ctx[c].key)
    IN  /\ lastAcq[k].by = c
        /\ ~lastAcq[k].touched
        /\ clock < lastAcq[k].due
        /\ lockVal[k] = ctx[c].token

\* withLock has just settled as fn did, on a key whose lock its release deleted
ReleasedByWithLock(key) ==
    /\ ret \in {Return("withLock", key, "fnValue"), Return("withLock", key, "fnError")}
    /\ lastAcq[LockKey(key)] = NoAcq

\* C13: once withLock has acquired, fn's return and fn's throw both lead to the release
\* script run with withLock's own token; when fn settled before the TTL elapsed and no
\* other caller acted on the lock, the key is absent after it, and an attempt of
\* acquireLock that follows at once succeeds.
C13_ReleasedOnEveryExit ==
    /\ [][\A c \in Callers :
            /\ (pc[c] = "fn" /\ pc'[c] # "fn") =>
                    (pc'[c] = "finally" /\ ctx'[c].token = ctx[c].token)
            /\ (pc[c] = "finally" /\ pc'[c] # "finally") =>
                    LET k == LockKey(ctx[c].key)
                        result == ReleaseScript(lockVal, lockExp, k, ctx[c].token)
                    IN  /\ lockVal' = result.val
                        /\ lockExp' = result.exp
                        /\ ret' = Return("withLock", ctx[c].key, ctx[c].outcome)
                        /\ Uncontended(c) => (lockVal'[k] = NoToken /\ lockExp'[k] = NoExpiry)]_vars
    /\ [][\A d \in Callers :
            (Attempted(d) /\ ReleasedByWithLock(ctx[d].key)) =>
                /\ Holding(d)'
                /\ lockVal'[LockKey(ctx[d].key)] = ctx[d].token]_vars

\* fn threw within the TTL, the release has made the key absent, and a caller is about to
\* attempt the key
C13_Witness ==
    /\ ret = Return("withLock", "res", "fnError")
    /\ lastAcq[LockKey("res")] = NoAcq
    /\ lockVal[LockKey("res")] = NoToken
    /\ \E d \in Callers : pc[d] = "acquire" /\ ctx[d].key = "res" /\ clock >= ctx[d].wake
\* callers c and d are both inside the fn of a withLock on the same key
BothInFn(c, d) == c # d /\ pc[c] = "fn" /\ pc[d] = "fn" /\ ctx[c].key = ctx[d].key

C15_BoundedRetries ==
    [][\A c \in Callers :
        Attempted(c) =>
            LET x == ctx[c]
                ok == SetNX(lockVal, lockExp, LockKey(x.key), x.token, x.ttl).ok
            IN  /\ x.i <= x.retries
                /\ clock >= x.wake
                /\ ok => /\ Holding(c)'
                          /\ ctx'[c].token = x.token
                          /\ ~x.with => ret' = Return("acquireLock", x.key, "token")
                /\ (~ok /\ x.i < x.retries) =>
                          /\ pc'[c] = "acquire"
                          /\ ctx'[c].i = x.i + 1
                          /\ ctx'[c].wake = clock + x.retryDelay
                          /\ ret' = NoReturn
                /\ (~ok /\ x.i >= x.retries) =>
                          /\ pc'[c] = "idle"
                          /\ ret' = IF x.with
                                    THEN Return("withLock", x.key, "AcquisitionFailure")
                                    ELSE Return("acquireLock", x.key, "null")]_vars

\* an acquireLock with retries = 1 has waited its retryDelay after a refused first
\* attempt and faces a key that is still held
C15_Witness ==
    \E c \in Callers :
        /\ pc[c] = "acquire"
        /\ ctx[c].retries = 1 /\ ctx[c].i = 1
        /\ ctx[c].wake > 0 /\ clock >= ctx[c].wake
        /\ lockVal[LockKey(ctx[c].key)] # NoToken
\* the script of caller c's check has just run and rejected it
Rejected(c) == pc[c] = "eval" /\ pc'[c] = "zrange"

\* C16 as claimed: a check that returns allowed = false leaves the window as it was
\* before the call, with the same entries and the same key expiry.
C16_RejectLeavesWindow ==
    [][\A c \in Callers :
        (Rejected(c) \/ (pc[c] = "zrange" /\ pc'[c] = "idle")) =>
            (zset' = zset /\ zexp' = zexp)]_vars

\* C16 as amended: a rejected check adds no entry and leaves the key expiry as it was;
\* all it removes are the entries whose timestamp is now - window*1000 or older, and the
\* read of the oldest entry that follows changes nothing.
C16_RejectOnlyPrunes ==
    [][\A c \in Callers :
        LET k == ctx[c].key
        IN  /\ Rejected(c) =>
                /\ zset'[k] \subseteq zset[k]
                /\ \A e \in zset[k] \ zset'[k] :
                        e.ts <= ctx[c].now - ctx[c].window * MsPerSecond
                /\ zexp' = zexp
                /\ \A j \in RateStoreKeys \ {k} : zset'[j] = zset[j]
            /\ (pc[c] = "zrange" /\ pc'[c] = "idle") =>
                (zset' = zset /\ zexp' = zexp /\ ~res'.allowed)]_vars

\* a rejected check has returned and the window it was decided on is still stored
C16_Witness ==
    /\ ret.op = "checkRateLimit"
    /\ res # NoResult /\ ~res.allowed
    /\ zset[ret.key] # {}
    /\ zexp[ret.key] > clock

\* C17: the first check to commit on a (key, identifier) after a resetRateLimit of it is
\* allowed and reports remaining = limit - 1, whatever the window held before the reset.
C17_ResetThenAllowed ==
    [][\A c \in Callers :
        LET h == hist[ctx[c].key]
        IN  ( /\ pc[c] = "eval" /\ pc'[c] # "eval"
              /\ h # <<>>
              /\ h[Len(h)].op = "reset" )
            => /\ pc'[c] = "idle"
               /\ ret' = Return("checkRateLimit", ctx[c].key, "result")
               /\ res'.allowed
               /\ res'.remaining = ctx[c].limit - 1]_vars

\* a window filled to its limit of 1 was reset, and a check sampled in the same
\* millisecond as the entry that had filled it has been allowed
C17_Witness ==
    \E k \in RateStoreKeys :
        /\ Len(hist[k]) = 3
        /\ hist[k][1].allowed /\ hist[k][1].limit = 1
        /\ hist[k][2].op = "reset"
        /\ hist[k][3].op = "check" /\ hist[k][3].limit = 1
        /\ hist[k][3].now = hist[k][1].now /\ hist[k][3].at = hist[k][1].at
        /\ ret = Return("checkRateLimit", k, "result")
        /\ res.allowed /\ res.remaining = 0
\* the number of entries the script of caller c's check finds after its prune
CountAfterPrune(c) ==
    Cardinality(Prune(zset[ctx[c].key], ctx[c].now - ctx[c].window * MsPerSecond))

\* C18: with count the number of entries left after the prune of the check's script,
\* every result has remaining = max(0, limit - count - (1 if allowed, else 0)) and
\* resetAt = now + window*1000: remaining is between 0 and limit - 1 when allowed and
\* is 0 when rejected.
C18_RemainingAndResetAt ==
    [][\A c \in Callers :
        LET x == ctx[c]
            count == CountAfterPrune(c)
        IN  /\ (pc[c] = "eval" /\ pc'[c] = "idle") =>
                /\ res'.allowed
                /\ res'.remaining = (IF x.limit - count - 1 > 0 THEN x.limit - count - 1 ELSE 0)
                /\ res'.remaining >= 0 /\ res'.remaining <= x.limit - 1
                /\ res'.resetAt = x.now + x.window * MsPerSecond
            /\ Rejected(c) => count >= x.limit
            /\ (pc[c] = "zrange" /\ pc'[c] = "idle") =>
                /\ ~res'.allowed
                /\ res'.remaining = 0
                /\ res'.resetAt = x.now + x.window * MsPerSecond]_vars

\* the second check of a window with limit 2 has been allowed with nothing remaining
C18_Witness ==
    /\ ret.op = "checkRateLimit"
    /\ res.allowed /\ res.remaining = 0
    /\ Cardinality(zset[ret.key]) = 2
    /\ res.resetAt > clock
\* caller c's rejected check returns its result in this step
ReturnsRejected(c) == pc[c] = "zrange" /\ pc'[c] = "idle"

\* C19: the retryAfter of a rejected check is (oldest timestamp that survived this
\* check's prune + window*1000) - now: it comes from the window on which the rejection
\* was decided, also when other checks or a reset of the key run concurrently.
C19_RetryAfterFromDecision ==
    [][\A c \in Callers :
        ReturnsRejected(c) =>
            res'.retryAfter = (ctx[c].seen + ctx[c].window * MsPerSecond) - ctx[c].now]_vars

\* C20: every check that returns allowed = false returns a retryAfter greater than 0.
C20_RetryAfterPositive ==
    (ret.op = "checkRateLimit" /\ res # NoResult /\ ~res.allowed) => res.retryAfter > 0
\* the arguments fail the validation of checkRateLimit
InvalidCheck(identifier, options) ==
    identifier = "" \/ options.key = "" \/ options.limit < 1 \/ options.window < 1

\* a step that is a validation error of checkRateLimit and nothing else
ValidationNoop ==
    /\ ret'.op = "checkRateLimit" /\ ret'.val = "ValidationError"
    /\ pc' = pc /\ ctx' = ctx
    /\ zset' = zset /\ zexp' = zexp

\* C21: checkRateLimit with an empty identifier, an empty options.key, limit < 1 or
\* window < 1 throws a validation error before it reaches the store: no window is
\* created or changed and no script is left to run (stated as: a step that starts a
\* script, or that ends in a validation error and does anything else besides, is not a
\* call with such arguments).
C21_InvalidCheckRejected ==
    [][~ValidationNoop =>
          \A c \in Callers :
              (pc[c] = "idle" /\ (pc'[c] = "eval" \/ ret'.val = "ValidationError")) =>
                  \A identifier \in Identifiers, options \in RateOptionArgs :
                      InvalidCheck(identifier, options) => ~CheckStart(c, identifier, options)]_vars

\* a call with limit 0 has been refused while the window it names holds an entry
C21_Witness ==
    /\ ret = Return("checkRateLimit", RateKey("api", "u1"), "ValidationError")
    /\ zset[RateKey("api", "u1")] # {}
    /\ \A c \in Callers : pc[c] = "idle"
\* C22: acquireLock with an empty key or with a ttl < 1, 0 included, throws a validation
\* error before it reaches the store: it makes no attempt and leaves every lock as it is.
C22_InvalidAcquireRejected ==
    [][\A c \in Callers :
        (pc[c] = "idle" /\ (pc'[c] = "acquire" \/ ret'.val = "ValidationError")) =>
            \A key \in LockNames, options \in LockOptionArgs, with \in BOOLEAN :
                (AcquireStart(c, key, options, with) /\ (key = "" \/ options.ttl < 1)) =>
                    /\ ret'.val = "ValidationError"
                    /\ pc' = pc /\ ctx' = ctx
                    /\ lockVal' = lockVal /\ lockExp' = lockExp]_vars
\* the script of caller c's check runs in this step
Evaluated(c) == pc[c] = "eval" /\ pc'[c] # "eval"

\* C26: the tags of the entries of a window are pairwise distinct, so every allowed
\* check leaves the window with exactly one entry more than its script counted, also
\* when several allowed checks carry the same millisecond.
C26_AllowedAddsOne ==
    [][\A c \in Callers :
        (pc[c] = "eval" /\ pc'[c] = "idle") =>
            Cardinality(zset'[ctx[c].key]) = CountAfterPrune(c) + 1]_vars

\* C27: every entry that the script of a check counts has a timestamp t with
\* now - window*1000 <= t <= now for the now of that check, whatever the order in which
\* the callers' scripts commit.
C27_CountedWithinWindow ==
    [][\A c \in Callers :
        Evaluated(c) =>
            LET windowStart == ctx[c].now - ctx[c].window * MsPerSecond
            IN  \A e \in Prune(zset[ctx[c].key], windowStart) :
                    windowStart <= e.ts /\ e.ts <= ctx[c].now]_vars

\* the allowed checks that committed in [from, from + W seconds) of store time
CommittedIn(h, from, W) ==
    {j \in Checks(h) : /\ h[j].allowed
                       /\ from <= h[j].at
                       /\ h[j].at < from + W * MsPerSecond}

\* C28: for a fixed limit L and window W the cap also holds when scripts commit later
\* than the now they carry and out of the order of their timestamps: at most L checks
\* commit as allowed within any W seconds of store time, and at most L allowed checks
\* have their timestamps within one interval of W seconds.
C28_CapInCommitOrder ==
    \A k \in RateStoreKeys : \A L \in LimitArgs, W \in WindowArgs :
        (NoReset(hist[k]) /\ Uniform(hist[k], L, W)) =>
            \A i \in Checks(hist[k]) :
                /\ Cardinality(CommittedIn(hist[k], hist[k][i].at, W)) <= L
                /\ Cardinality(AllowedIn(hist[k], hist[k][i].now, W)) <= L

\* C29: the prune of a check removes exactly the entries stamped before
\* now - window*1000; an entry stamped now - window*1000 stays and is counted.
C29_PruneStrictlyOlder ==
    [][\A c \in Callers :
        Evaluated(c) =>
            LET windowStart == ctx[c].now - ctx[c].window * MsPerSecond
            IN  \A e \in zset[ctx[c].key] :
                    (e.ts < windowStart) <=> (e \notin zset'[ctx[c].key])]_vars

\* C30: when extendLock returns true the key still holds the same token and its expiry
\* is not earlier than before the call, for every ttl that extendLock accepts.
C30_ExtendKeepsLock ==
    [][(ret'.op = "extendLock" /\ ret'.val = "true") =>
        LET k == LockKey(ret'.key)
        IN  /\ lockVal'[k] # NoToken
            /\ lockVal'[k] = lockVal[k]
            /\ lockExp'[k] >= lockExp[k]]_vars
\* every window but the one of pair p is left as it was
OtherWindowsKept(p) ==
    \A q \in RatePairs \ {p} :
        /\ zset'[RateKey(q[1], q[2])] = zset[RateKey(q[1], q[2])]
        /\ zexp'[RateKey(q[1], q[2])] = zexp[RateKey(q[1], q[2])]

\* every lock key but the one of key is left as it was
OtherLocksKept(key) ==
    \A other \in (LockNames \cup SideLockNames) \ {key} :
        /\ lockVal'[LockKey(other)] = lockVal[LockKey(other)]
        /\ lockExp'[LockKey(other)] = lockExp[LockKey(other)]

\* C23: operations on distinct keys do not interact: the checks of two distinct (key,
\* identifier) pairs work on distinct store entries, a check or a reset for one pair
\* leaves the window of every other pair as it was, and acquireLock, releaseLock and
\* extendLock on one lock key leave every other lock key as it was.
C23_DistinctKeysIndependent ==
    /\ [](\A c, d \in Callers :
            (ctx[c].op = "check" /\ ctx[d].op = "check" /\ ctx[c].pair # ctx[d].pair)
                => ctx[c].key # ctx[d].key)
    /\ [][/\ \A c \in Callers :
               /\ Evaluated(c) => OtherWindowsKept(ctx[c].pair)
               /\ Attempted(c) => OtherLocksKept(ctx[c].key)
          /\ ret'.op = "resetRateLimit" =>
               \A c \in Callers, p \in RatePairs :
                   ResetRateLimit(c, p[2], p[1]) => OtherWindowsKept(p)
          /\ ret'.op \in {"releaseLock", "extendLock"} => OtherLocksKept(ret'.key)]_vars

\* the caller gets the outcome of a store call that failed
FailedPcs == {"acquireFailed", "evalFailed", "zrangeFailed", "releaseFailed", "extendFailed"}
Raised(c) == pc[c] \in FailedPcs /\ pc'[c] # pc[c]
FailedCall(c) ==
    CASE pc[c] = "acquireFailed" -> "acquireLock"
      [] pc[c] = "releaseFailed" -> "releaseLock"
      [] pc[c] = "extendFailed" -> "extendLock"
      [] OTHER -> "checkRateLimit"

\* C24: when the store call fails, checkRateLimit, acquireLock, releaseLock and
\* extendLock end with that failure: checkRateLimit builds no result (neither allowed
\* nor rejected), acquireLock neither returns null nor goes on to another attempt,
\* releaseLock and extendLock do not return false, and the store is as it was
C24_StoreFailurePropagates ==
    [][\A c \in Callers :
          Raised(c) =>
              /\ ret' = Return(FailedCall(c), ctx[c].key, "StoreError")
              /\ pc[c] \in {"evalFailed", "zrangeFailed"} => res' = NoResult
              /\ pc[c] \in {"acquireFailed", "evalFailed", "zrangeFailed"} => pc'[c] = "idle"
              /\ UNCHANGED <<lockVal, lockExp, zset, zexp>>]_vars

\* acquireLock has failed on a store error while the lock was held by someone, with a
\* retry still left
C24_Witness ==
    /\ ret = Return("acquireLock", "res", "StoreError")
    /\ lockVal[LockKey("res")] # NoToken
    /\ \E c \in Callers : pc[c] = "idle"

\* C25: the key of a held lock loses or changes its value only through a releaseLock
\* presenting the matching token or through the expiry of its TTL (an extendLock by
\* the holder with a TTL that has already run out counts as expiry); no cache write or
\* delete, pattern delete or clearCache removes or replaces it
C25_HeldLockLeavesOnlyByReleaseOrExpiry ==
    [][\A k \in LockStoreKeys :
          (lockVal[k] \in Tokens /\ lockVal'[k] # lockVal[k]) =>
              \/ clock' > clock /\ Expired(lockExp, k, clock')
              \/ /\ ret'.op \in {"releaseLock", "extendLock"}
                 /\ ret'.val = "true"
                 /\ LockKey(ret'.key) = k]_vars

\* C31: once the lock is acquired, withLock ends as fn did: it returns the value fn
\* returned or throws the error fn threw, also when the release on exit returns false
\* or fails
C31_OutcomeIsFnOutcome ==
    [][\A c \in Callers :
          (pc[c] \in {"finally", "finallyFailed"} /\ pc'[c] = "idle") =>
              ret' = Return("withLock", ctx[c].key, ctx[c].outcome)]_vars

\* C32: an attempt of acquireLock on a key that is held changes nothing: the stored
\* token and the expiry of the holder are the same after it, at every retry
C32_FailedAttemptChangesNothing ==
    [][\A c \in Callers :
          (Attempted(c) /\ lockVal[LockKey(ctx[c].key)] # NoToken) =>
              /\ lockVal' = lockVal
              /\ lockExp' = lockExp]_vars

\* a caller has failed once and waits for its retry while the lock is still held
C32_Witness ==
    \E c \in Callers :
        /\ pc[c] = "acquire" /\ ctx[c].i = 1
        /\ lockVal[LockKey(ctx[c].key)] # NoToken
        /\ lockExp[LockKey(ctx[c].key)] > clock

\* the last check committed on the key of caller c's retry is the rejected check the
\* retry answers (resets may have followed it)
LastCheck(h) == CHOOSE i \in Checks(h) : \A j \in Checks(h) : j <= i
RetryOfLast(c) ==
    LET h == hist[ctx[c].key]
    IN  /\ pc[c] = "eval" /\ pc'[c] # "eval"
        /\ "from" \in DOMAIN ctx[c]
        /\ Checks(h) # {}
        /\ LET e == h[LastCheck(h)]
           IN  /\ ~e.allowed /\ e.now = ctx[c].from
               /\ e.limit = ctx[c].limit /\ e.window = ctx[c].window

\* C33: a check rejected at `now` with retryAfter r, followed by no other commit of a
\* check on its (key, identifier), is followed by an allowed check when the same limit
\* and window are asked again at now + r
C33_RetryAfterThenAllowed ==
    [][\A c \in Callers : RetryOfLast(c) => res'.allowed]_vars

\* the entry of the allowed check h[i] has been removed neither by a reset nor by the
\* prune of a later check
NotResetNorPruned(h, i) ==
    \A j \in DOMAIN h :
        j > i => /\ h[j].op = "check"
                 /\ h[i].now > h[j].now - h[j].window * MsPerSecond

\* C34: the expiry of the key never removes an entry that a later check on the same
\* (key, identifier) would count inside its window, whatever windows the checks on the
\* key use: a check called now finds in the store every entry of its window that no
\* reset and no prune has removed
C34_ExpiryKeepsCountedEntries ==
    [][\A c \in Callers :
          (Evaluated(c) /\ ctx[c].now = clock) =>
              LET h == hist[ctx[c].key]
                  windowStart == ctx[c].now - ctx[c].window * MsPerSecond
              IN  \A i \in DOMAIN h :
                      ( /\ h[i].op = "check" /\ h[i].allowed
                        /\ h[i].now > windowStart
                        /\ NotResetNorPruned(h, i) )
                      => \E e \in zset[ctx[c].key] : e.ts = h[i].now]_vars

\* the last instant of the modelled time
LastTime == MaxSeconds * MsPerSecond

\* caller c waits in acquireLock for the key that d holds, and the lock of d runs out
\* no later than the earliest time of c's last attempt
WaitsFor(c, d) ==
    /\ c # d
    /\ pc[c] = "acquire" /\ pc[d] = "holding"
    /\ ctx[d].key = ctx[c].key
    /\ lockVal[LockKey(ctx[c].key)] = ctx[d].token
    /\ LET x == ctx[c]
           last == Max(clock, x.wake) + (x.retries - x.i) * x.retryDelay
       IN  /\ lockExp[LockKey(x.key)] <= last
           /\ last <= LastTime

\* c has the lock, or the case is off: d is back asking for the lock, or the lock of d
\* has been extended
GetsOrContended(c, d) ==
    \/ pc[c] = "holding"
    \/ pc[d] = "acquire"
    \/ lastAcq[LockKey("res")].touched

UpdateWrites(c) == pc[c] = "merge" /\ pc'[c] = "idle" /\ ret'.val = "void"

\* C36: concurrent updateSession calls that set different fields both take effect (the
\* write of an update keeps every field the stored session holds and adds its own), and
\* an updateSession never leaves a session behind a deleteSession that has completed
\* (its write does not create a session that is absent)
C36_UpdatesMergeAndDeleteWins ==
    [][\A c \in Callers :
          UpdateWrites(c) =>
              LET before == ParseSession(lockVal[SessionKey(ctx[c].key)])
                  after == ParseSession(lockVal'[SessionKey(ctx[c].key)])
              IN  IF before = NoSession
                  THEN after = NoSession
                  ELSE DOMAIN before \cup DOMAIN ctx[c].data \subseteq DOMAIN after]_vars
====
